---- MODULE Spec2Model ----
(***************************************************************************)
(* ReflexRealtimeServer: the real-time WebSocket broadcast server.         *)
(*                                                                         *)
(* The server is single-threaded (one Node.js event loop): every callback  *)
(* (connection, message, close, error, heartbeat tick, sweep tick) runs to *)
(* completion, so each callback is one atomic action.  A callback is a     *)
(* deterministic computation over the server maps; it is written below as  *)
(* operators over a record s = [clients, rooms, userSessions, readyState,  *)
(* sent, error]                                                            *)
(* where sent collects the frames the callback wrote to the sockets and    *)
(* error tells that the callback ended by throwing.                        *)
(*                                                                         *)
(* JavaScript Map/Set keep insertion order and forEach skips entries that  *)
(* were deleted before they are visited.  A Set<string> is a sequence      *)
(* without duplicates; a Map is a function whose DOMAIN is its key set.    *)
(* Every registry entry carries the position at which its key was          *)
(* inserted (ord), since Map.forEach visits the keys in insertion order.   *)
(* Connection identifiers are numbered in accept order, except in the      *)
(* specification of identifier generation (SpecIds), where they are the    *)
(* values generateClientId computes from the clock and the random draw.    *)
(***************************************************************************)
EXTENDS Integers, Sequences, FiniteSets, TLC

\* ---------------------------------------------------------------- bounds
MaxClients == 3
MaxAdvances == 1

\* ------------------------------------------------------- program constants
\* cleanupInactiveClients: const timeout = 5 * 60 * 1000
Timeout == 300000

\* ---------------------------------------------------------------- universes
\* JavaScript undefined: for a string, for a list (a list is a sequence of
\* strings) and for an optional connection identifier (excludeClientId?)
None == "undefined"
NoList == <<"undefined">>
NoId == 0
\* a JSON value that is truthy, has a length > 0 and has no forEach (a string
\* such as "r1") where the handler expects an array
NotAList == <<"not an array">>
Ids == 1..MaxClients
Users == {"u1", "u2"}
Rooms == {"r1", "r2"}
Topics == {"t1"}

VARIABLES
  clients,       \* Map<string, ClientConnection>: id -> [userId, lastActivity, subscriptions, ord]
  rooms,         \* Map<string, Set<string>>: roomId -> member ids (insertion order)
  userSessions,  \* Map<string, Set<string>>: userId -> ids (insertion order)
  readyState,    \* per accepted socket: ws.readyState and whether send() throws
  heartbeats,    \* ids whose setInterval heartbeat is still scheduled
  accepted,      \* number of "connection" events handled so far
  now,           \* Date.now()
  advances,      \* how often the clock was advanced (bounded by MaxAdvances)
  last,          \* the callback that ran last and its input
  sent,          \* frames written by that callback, in write order: [to, msg]
  caught,        \* that callback ended in the catch block of ws.on("message")
  lastInbound    \* registered clientId -> time its last inbound frame arrived
                 \* (the time it was accepted, before its first frame)

vars == <<clients, rooms, userSessions, readyState, heartbeats, accepted, now,
          advances, last, sent, caught, lastInbound>>

\* ws.readyState === WebSocket.OPEN holds in "OPEN" and in "BROKEN"; in "BROKEN"
\* ws.send() throws.  "CLOSING": readyState is no longer OPEN, the close event
\* has not been emitted yet.  "CLOSED": the close event was emitted.
\* They are read from the record s the callback works on (field readyState).
IsOpen(s, c) == s.readyState[c] \in {"OPEN", "BROKEN"}
SendThrows(s, c) == s.readyState[c] = "BROKEN"

\* a TypeError leaves the handler where it stands: what was written to the maps
\* so far stays, nothing after it runs, ws.on("message") catches and logs it
Throw(s) == [s EXCEPT !.error = TRUE]

\* ------------------------------------------------------------ Set<string>
SetHas(q, x) == \E i \in 1..Len(q) : q[i] = x
SetAdd(q, x) == IF SetHas(q, x) THEN q ELSE Append(q, x)
SetDelete(q, x) == SelectSeq(q, LAMBDA y : y # x)
Elems(q) == {q[i] : i \in 1..Len(q)}

\* --------------------------------------------------------------- Map ops
MapSet(m, k, v) == [x \in DOMAIN m \cup {k} |-> IF x = k THEN v ELSE m[x]]
MapDelete(m, k) == [x \in DOMAIN m \ {k} |-> m[x]]

RECURSIVE KeysInOrder(_)
\* the keys of the clients Map in insertion order
KeysInOrder(m) ==
  IF DOMAIN m = {} THEN <<>>
  ELSE LET k == CHOOSE x \in DOMAIN m : \A y \in DOMAIN m : m[x].ord <= m[y].ord
       IN <<k>> \o KeysInOrder(MapDelete(m, k))

RECURSIVE handleDisconnection(_, _)
RECURSIVE sendToClient(_, _, _)
RECURSIVE ForEachRoomSend(_, _, _, _, _)
RECURSIVE ForEachUserSend(_, _, _, _, _)
RECURSIVE ForEachClientSend(_, _, _, _)
RECURSIVE ForEachTargetUser(_, _, _, _)
RECURSIVE JoinRooms(_, _, _)
RECURSIVE LeaveRooms(_, _, _)

\* sendToClient that writes to the socket the identifier once had, without
\* looking the identifier up in the registry
sendToClient_noRegistryLookup(s, clientId, message) ==
  IF ~IsOpen(s, clientId) THEN s
  ELSE IF SendThrows(s, clientId) THEN handleDisconnection(s, clientId)
  ELSE [s EXCEPT !.sent = Append(@, [to |-> clientId, msg |-> message])]

sendToClient(s, clientId, message) ==
  IF clientId \notin DOMAIN s.clients \/ ~IsOpen(s, clientId) THEN s
  ELSE IF SendThrows(s, clientId) THEN handleDisconnection(s, clientId)
  ELSE [s EXCEPT !.sent = Append(@, [to |-> clientId, msg |-> message])]

LiveSet(m, k) == IF k \in DOMAIN m THEN m[k] ELSE <<>>

\* room.forEach that gives up at the first target whose write raised
ForEachRoomSend_stopsAtFailure(s, roomId, ids, message, excludeClientId) ==
  IF ids = <<>> THEN s
  ELSE LET clientId == Head(ids)
       IN IF SetHas(LiveSet(s.rooms, roomId), clientId) /\ clientId # excludeClientId
          THEN LET s1 == sendToClient(s, clientId, message)
               IN IF clientId \in DOMAIN s1.clients
                  THEN ForEachRoomSend(s1, roomId, Tail(ids), message, excludeClientId)
                  ELSE s1
          ELSE ForEachRoomSend(s, roomId, Tail(ids), message, excludeClientId)

\* room.forEach in broadcastToRoom: ids is the Set as it stood when the loop
\* started; a member deleted from that Set while the loop runs is not visited
ForEachRoomSend(s, roomId, ids, message, excludeClientId) ==
  IF ids = <<>> THEN s
  ELSE LET clientId == Head(ids)
       IN IF SetHas(LiveSet(s.rooms, roomId), clientId) /\ clientId # excludeClientId
          THEN ForEachRoomSend(sendToClient(s, clientId, message), roomId,
                               Tail(ids), message, excludeClientId)
          ELSE ForEachRoomSend(s, roomId, Tail(ids), message, excludeClientId)

\* userClients.forEach in broadcastToUser, likewise
ForEachUserSend(s, userId, ids, message, excludeClientId) ==
  IF ids = <<>> THEN s
  ELSE LET clientId == Head(ids)
       IN IF SetHas(LiveSet(s.userSessions, userId), clientId)
             /\ clientId # excludeClientId
          THEN ForEachUserSend(sendToClient(s, clientId, message), userId,
                               Tail(ids), message, excludeClientId)
          ELSE ForEachUserSend(s, userId, Tail(ids), message, excludeClientId)

\* Map.forEach over clients: a key deleted while the loop runs is not visited
ForEachClientSend(s, ids, message, excludeClientId) ==
  IF ids = <<>> THEN s
  ELSE LET clientId == Head(ids)
       IN IF clientId \in DOMAIN s.clients /\ clientId # excludeClientId
          THEN ForEachClientSend(sendToClient(s, clientId, message), Tail(ids),
                                 message, excludeClientId)
          ELSE ForEachClientSend(s, Tail(ids), message, excludeClientId)

broadcastToAll(s, message, excludeClientId) ==
  ForEachClientSend(s, KeysInOrder(s.clients), message, excludeClientId)

broadcastToUser(s, userId, message, excludeClientId) ==
  IF userId \notin DOMAIN s.userSessions THEN s
  ELSE ForEachUserSend(s, userId, s.userSessions[userId], message, excludeClientId)

\* broadcastToRoom that forgets excludeClientId
broadcastToRoom_includesSender(s, roomId, message, excludeClientId) ==
  IF roomId \notin DOMAIN s.rooms THEN s
  ELSE ForEachRoomSend(s, roomId, s.rooms[roomId], message, NoId)

broadcastToRoom(s, roomId, message, excludeClientId) ==
  IF roomId \notin DOMAIN s.rooms THEN s
  ELSE ForEachRoomSend(s, roomId, s.rooms[roomId], message, excludeClientId)

\* ------------------------------------------------------- outbound messages
Message(type, payload, clientId) ==
  [type |-> type, payload |-> payload, timestamp |-> now, clientId |-> clientId]

UserJoin(clientId, sessionId) ==
  Message("USER_JOIN", [clientId |-> clientId, sessionId |-> sessionId], NoId)

UserLeave(clientId, userId) ==
  Message("USER_LEAVE", [clientId |-> clientId, userId |-> userId], NoId)

\* ------------------------------------------------------ handleDisconnection
\* handleDisconnection that leaves the rooms alone
PruneRooms_skipped(m, clientId) == m

\* this.rooms.forEach: delete the id from every room, delete the rooms left empty
PruneRooms(m, clientId) ==
  LET pruned == [r \in DOMAIN m |-> SetDelete(m[r], clientId)]
  IN [r \in {x \in DOMAIN m : Len(pruned[x]) # 0} |-> pruned[r]]

\* the user set of the userId the connection carries now, and only that one
PruneUser(m, userId, clientId) ==
  IF userId # None /\ userId \in DOMAIN m
  THEN LET userClients == SetDelete(m[userId], clientId)
       IN IF Len(userClients) = 0 THEN MapDelete(m, userId)
          ELSE MapSet(m, userId, userClients)
  ELSE m

\* handleDisconnection without  if (!client) return : an identifier that is
\* no longer registered is announced again
handleDisconnection_noEarlyReturn(s, clientId) ==
  IF clientId \notin DOMAIN s.clients
  THEN broadcastToAll(s, UserLeave(clientId, None), clientId)
  ELSE LET client == s.clients[clientId]
           s1 == [s EXCEPT !.userSessions = PruneUser(@, client.userId, clientId),
                           !.rooms = PruneRooms(@, clientId),
                           !.clients = MapDelete(@, clientId)]
       IN broadcastToAll(s1, UserLeave(clientId, client.userId), clientId)

\* depth counts the activations of handleDisconnection that have passed the
\* early return and have not returned yet, deepest is the largest depth the
\* callback has reached, entered the number of such activations so far
handleDisconnection(s, clientId) ==
  IF clientId \notin DOMAIN s.clients THEN s
  ELSE LET client == s.clients[clientId]
           s1 == [s EXCEPT !.userSessions = PruneUser(@, client.userId, clientId),
                           !.rooms = PruneRooms(@, clientId),
                           !.clients = MapDelete(@, clientId),
                           !.depth = @ + 1,
                           !.deepest = IF s.depth + 1 > @ THEN s.depth + 1 ELSE @,
                           !.entered = @ + 1]
           s2 == broadcastToAll(s1, UserLeave(clientId, client.userId), clientId)
       IN [s2 EXCEPT !.depth = @ - 1]

\* ---------------------------------------------------------- message handlers
\* handleStateSync with  excludeSelf = false  as the default
handleStateSync_defaultsToInclude(s, clientId, message) ==
  LET p == message.payload
      excludeSelf == IF p.excludeSelf = None THEN "false" ELSE p.excludeSelf
      broadcastMessage == Message("STATE_SYNC", p.stateUpdates, clientId)
      excl == IF excludeSelf = "true" THEN clientId ELSE NoId
  IN IF p.targetUsers # NoList /\ Len(p.targetUsers) > 0
     THEN ForEachTargetUser(s, p.targetUsers, broadcastMessage, excl)
     ELSE broadcastToAll(s, broadcastMessage, excl)

\* handleStateSync that tests  if (targetUsers)  only: an empty list reaches nobody
handleStateSync_emptyListIsTargeted(s, clientId, message) ==
  LET p == message.payload
      excludeSelf == IF p.excludeSelf = None THEN "true" ELSE p.excludeSelf
      broadcastMessage == Message("STATE_SYNC", p.stateUpdates, clientId)
      excl == IF excludeSelf = "true" THEN clientId ELSE NoId
  IN IF p.targetUsers # NoList
     THEN ForEachTargetUser(s, p.targetUsers, broadcastMessage, excl)
     ELSE broadcastToAll(s, broadcastMessage, excl)

\* handleStateSync that stamps the frame with the clientId of the envelope
handleStateSync_trustsEnvelope(s, clientId, message) ==
  LET p == message.payload
      broadcastMessage == Message("STATE_SYNC", p.stateUpdates, message.clientId)
  IN IF p.targetUsers # NoList /\ Len(p.targetUsers) > 0
     THEN ForEachTargetUser(s, p.targetUsers, broadcastMessage, clientId)
     ELSE broadcastToAll(s, broadcastMessage, clientId)

\* destructuring message.payload throws when the message carries no payload;
\* targetUsers.forEach throws when targetUsers is not an array
handleStateSync(s, clientId, message) ==
  IF "payload" \notin DOMAIN message THEN Throw(s)
  ELSE LET p == message.payload
           excludeSelf == IF p.excludeSelf = None THEN "true" ELSE p.excludeSelf
           broadcastMessage == Message("STATE_SYNC", p.stateUpdates, clientId)
           excl == IF excludeSelf = "true" THEN clientId ELSE NoId
       IN IF p.targetUsers = NotAList THEN Throw(s)
          ELSE IF p.targetUsers # NoList /\ Len(p.targetUsers) > 0
          THEN ForEachTargetUser(s, p.targetUsers, broadcastMessage, excl)
          ELSE broadcastToAll(s, broadcastMessage, excl)

\* targetUsers.forEach(userId => broadcastToUser(userId, ...))
ForEachTargetUser(s, users, message, excludeClientId) ==
  IF users = <<>> THEN s
  ELSE ForEachTargetUser(broadcastToUser(s, Head(users), message, excludeClientId),
                         Tail(users), message, excludeClientId)

\* handleEventBroadcast that copies no source into the outbound payload
handleEventBroadcast_noSource(s, clientId, message) ==
  LET p == message.payload
      broadcastMessage ==
        Message("EVENT_BROADCAST",
                [eventType |-> p.eventType, eventPayload |-> p.eventPayload,
                 sourceClientId |-> NoId], clientId)
  IN IF p.room # None
     THEN broadcastToRoom(s, p.room, broadcastMessage, clientId)
     ELSE broadcastToAll(s, broadcastMessage, clientId)

handleEventBroadcast(s, clientId, message) ==
  IF "payload" \notin DOMAIN message THEN Throw(s)
  ELSE LET p == message.payload
           broadcastMessage ==
             Message("EVENT_BROADCAST",
                     [eventType |-> p.eventType, eventPayload |-> p.eventPayload,
                      sourceClientId |-> clientId], clientId)
       IN IF p.room # None
          THEN broadcastToRoom(s, p.room, broadcastMessage, clientId)
          ELSE broadcastToAll(s, broadcastMessage, clientId)

\* rooms.forEach(roomId => ... this.rooms.get(roomId).add(clientId))
JoinRooms(m, roomIds, clientId) ==
  IF roomIds = <<>> THEN m
  ELSE JoinRooms(MapSet(m, Head(roomIds), SetAdd(LiveSet(m, Head(roomIds)), clientId)),
                 Tail(roomIds), clientId)

\* the three steps run in source order: bind the user, add the topics, join
\* the rooms; subscriptions.forEach / rooms.forEach throws on a value that is
\* not an array, after the steps before it have taken effect
handleSubscribe(s, clientId, message) ==
  IF clientId \notin DOMAIN s.clients THEN s
  ELSE IF "payload" \notin DOMAIN message THEN Throw(s)
  ELSE LET p == message.payload
           s1 == IF p.userId # None
                 THEN [s EXCEPT !.clients[clientId].userId = p.userId,
                                !.userSessions =
                                  MapSet(@, p.userId,
                                         SetAdd(LiveSet(@, p.userId), clientId))]
                 ELSE s
           s2 == IF p.subscriptions # NoList
                 THEN [s1 EXCEPT !.clients[clientId].subscriptions =
                                   @ \cup Elems(p.subscriptions)]
                 ELSE s1
       IN IF p.subscriptions = NotAList THEN Throw(s1)
          ELSE IF p.rooms = NotAList THEN Throw(s2)
          ELSE IF p.rooms # NoList
          THEN [s2 EXCEPT !.rooms = JoinRooms(@, p.rooms, clientId)]
          ELSE s2

\* handleUnsubscribe without  if (room.size === 0) this.rooms.delete(roomId)
LeaveRooms_keepsEmpty(m, roomIds, clientId) ==
  IF roomIds = <<>> THEN m
  ELSE LET roomId == Head(roomIds)
           next == IF roomId \in DOMAIN m
                   THEN MapSet(m, roomId, SetDelete(m[roomId], clientId))
                   ELSE m
       IN LeaveRooms(next, Tail(roomIds), clientId)

\* rooms.forEach(roomId => { room.delete(clientId); if (room.size === 0) ... })
LeaveRooms(m, roomIds, clientId) ==
  IF roomIds = <<>> THEN m
  ELSE LET roomId == Head(roomIds)
           next == IF roomId \in DOMAIN m
                   THEN LET room == SetDelete(m[roomId], clientId)
                        IN IF Len(room) = 0 THEN MapDelete(m, roomId)
                           ELSE MapSet(m, roomId, room)
                   ELSE m
       IN LeaveRooms(next, Tail(roomIds), clientId)

\* handleUnsubscribe that takes the sender out of every room
handleUnsubscribe_leavesAllRooms(s, clientId, message) ==
  IF clientId \notin DOMAIN s.clients THEN s
  ELSE LET p == message.payload
           s1 == IF p.subscriptions # NoList
                 THEN [s EXCEPT !.clients[clientId].subscriptions =
                                  @ \ Elems(p.subscriptions)]
                 ELSE s
       IN [s1 EXCEPT !.rooms = PruneRooms(@, clientId)]

handleUnsubscribe(s, clientId, message) ==
  IF clientId \notin DOMAIN s.clients THEN s
  ELSE IF "payload" \notin DOMAIN message THEN Throw(s)
  ELSE LET p == message.payload
           s1 == IF p.subscriptions # NoList
                 THEN [s EXCEPT !.clients[clientId].subscriptions =
                                  @ \ Elems(p.subscriptions)]
                 ELSE s
       IN IF p.subscriptions = NotAList THEN Throw(s)
          ELSE IF p.rooms = NotAList THEN Throw(s1)
          ELSE IF p.rooms # NoList
          THEN [s1 EXCEPT !.rooms = LeaveRooms(@, p.rooms, clientId)]
          ELSE s1

\* handleHeartbeat that answers to every connection
handleHeartbeat_repliesToAll(s, clientId, message) ==
  IF clientId \notin DOMAIN s.clients THEN s
  ELSE broadcastToAll([s EXCEPT !.clients[clientId].lastActivity = now],
                      Message("HEARTBEAT", [status |-> "alive"], NoId), NoId)

handleHeartbeat(s, clientId, message) ==
  IF clientId \notin DOMAIN s.clients THEN s
  ELSE sendToClient([s EXCEPT !.clients[clientId].lastActivity = now], clientId,
                    Message("HEARTBEAT", [status |-> "alive"], NoId))

\* handleMessage without  if (!client) return : the write to
\* client.lastActivity throws for an identifier that is not registered, and a
\* SUBSCRIBE from it goes on to handleSubscribe
handleMessage_noEarlyReturn(s, clientId, message) ==
  IF clientId \notin DOMAIN s.clients THEN Throw(s)
  ELSE LET s1 == [s EXCEPT !.clients[clientId].lastActivity = now]
       IN CASE message.type = "STATE_SYNC" -> handleStateSync(s1, clientId, message)
            [] message.type = "EVENT_BROADCAST" -> handleEventBroadcast(s1, clientId, message)
            [] message.type = "SUBSCRIBE" -> handleSubscribe(s1, clientId, message)
            [] message.type = "UNSUBSCRIBE" -> handleUnsubscribe(s1, clientId, message)
            [] message.type = "HEARTBEAT" -> handleHeartbeat(s1, clientId, message)
            [] OTHER -> s1

\* handleMessage that reads a tag without a case as a SUBSCRIBE
handleMessage_defaultSubscribes(s, clientId, message) ==
  IF clientId \notin DOMAIN s.clients THEN s
  ELSE LET s1 == [s EXCEPT !.clients[clientId].lastActivity = now]
       IN CASE message.type = "STATE_SYNC" -> handleStateSync(s1, clientId, message)
            [] message.type = "EVENT_BROADCAST" -> handleEventBroadcast(s1, clientId, message)
            [] message.type = "UNSUBSCRIBE" -> handleUnsubscribe(s1, clientId, message)
            [] message.type = "HEARTBEAT" -> handleHeartbeat(s1, clientId, message)
            [] OTHER -> handleSubscribe(s1, clientId, message)

handleMessage(s, clientId, message) ==
  IF clientId \notin DOMAIN s.clients THEN s
  ELSE LET s1 == [s EXCEPT !.clients[clientId].lastActivity = now]
       IN CASE message.type = "STATE_SYNC" -> handleStateSync(s1, clientId, message)
            [] message.type = "EVENT_BROADCAST" -> handleEventBroadcast(s1, clientId, message)
            [] message.type = "SUBSCRIBE" -> handleSubscribe(s1, clientId, message)
            [] message.type = "UNSUBSCRIBE" -> handleUnsubscribe(s1, clientId, message)
            [] message.type = "HEARTBEAT" -> handleHeartbeat(s1, clientId, message)
            [] OTHER -> s1

\* a frame whose text JSON.parse rejects
NotJson == [type |-> "SyntaxError"]

\* ws.on("message"): try { handleMessage(clientId, JSON.parse(data)) } catch
onMessage(s, clientId, data) ==
  IF data = NotJson THEN Throw(s) ELSE handleMessage(s, clientId, data)

\* ------------------------------------------------------------ timers
RECURSIVE SweepEach(_, _)
\* this.clients.forEach in cleanupInactiveClients
SweepEach(s, ids) ==
  IF ids = <<>> THEN s
  ELSE LET clientId == Head(ids)
       IN IF clientId \in DOMAIN s.clients
             /\ now - s.clients[clientId].lastActivity > Timeout
          THEN SweepEach(handleDisconnection(s, clientId), Tail(ids))
          ELSE SweepEach(s, Tail(ids))

cleanupInactiveClients(s) == SweepEach(s, KeysInOrder(s.clients))

\* `client_${Date.now()}_${Math.random().toString(36).substr(2, 9)}`: the
\* identifier is fixed by the clock reading t and the random draw r, and two
\* different pairs give two different identifiers
generateClientId(t, r) == t * 10 + r + 1

\* url.searchParams.get("sessionId") || `session_${Date.now()}`
extractSessionId(q) == IF q # None /\ q # "" THEN q ELSE "session_now"

\* --------------------------------------------------------- inbound messages
\* An inbound payload is any JSON object: a field it does not carry is undefined
EmptyPayload ==
  [stateUpdates |-> None, targetUsers |-> NoList, excludeSelf |-> None,
   eventType |-> None, eventPayload |-> None, room |-> None,
   subscriptions |-> NoList, userId |-> None, rooms |-> NoList]

Inbound(type, payload) == [type |-> type, payload |-> payload]
NoMessage == Inbound("none", EmptyPayload)
\* a message that carries no payload field at all
Bare(type) == [type |-> type]

RoomLists == {<<"r1">>, <<"r2">>, <<"r1", "r2">>}
UserLists == {NoList, <<>>, <<"u1">>}
TopicLists == {NoList, <<"t1">>}

\* clients that only join and leave rooms and broadcast events
RoomMessages ==
  {Inbound("SUBSCRIBE", [EmptyPayload EXCEPT !.rooms = l]) : l \in RoomLists}
  \cup {Inbound("UNSUBSCRIBE", [EmptyPayload EXCEPT !.rooms = l]) : l \in RoomLists}
  \cup {Inbound("EVENT_BROADCAST",
                [EmptyPayload EXCEPT !.eventType = "ping", !.eventPayload = "data",
                                     !.room = r]) : r \in Rooms \cup {None}}

\* clients that only bind user ids and synchronise state
UserMessages ==
  {Inbound("SUBSCRIBE", [EmptyPayload EXCEPT !.userId = u]) : u \in Users}
  \cup {Inbound("STATE_SYNC",
                [EmptyPayload EXCEPT !.stateUpdates = "state", !.targetUsers = l,
                                     !.excludeSelf = e]) :
          l \in UserLists, e \in {None, "true", "false"}}

\* clients that bind one user id, join and leave one room and one topic, and
\* send the remaining message types
MixedMessages ==
  {Inbound("SUBSCRIBE", [EmptyPayload EXCEPT !.userId = "u1", !.rooms = <<"r1">>,
                                             !.subscriptions = <<"t1">>]),
   Inbound("UNSUBSCRIBE", [EmptyPayload EXCEPT !.rooms = <<"r1">>,
                                               !.subscriptions = <<"t1">>]),
   Inbound("EVENT_BROADCAST", [EmptyPayload EXCEPT !.eventType = "ping",
                                                   !.eventPayload = "data"]),
   Inbound("HEARTBEAT", EmptyPayload),
   Inbound("NOT_A_TYPE", EmptyPayload)}

\* clients that bind user u1 and join room r1 in one SUBSCRIBE and then use
\* each of the three broadcast paths: to a room, to a user, to all
BroadcastMessages ==
  {Inbound("SUBSCRIBE", [EmptyPayload EXCEPT !.userId = "u1", !.rooms = <<"r1">>]),
   Inbound("EVENT_BROADCAST", [EmptyPayload EXCEPT !.eventType = "ping",
                                                   !.eventPayload = "data",
                                                   !.room = "r1"]),
   Inbound("EVENT_BROADCAST", [EmptyPayload EXCEPT !.eventType = "ping",
                                                   !.eventPayload = "data"]),
   Inbound("STATE_SYNC", [EmptyPayload EXCEPT !.stateUpdates = "state",
                                              !.targetUsers = <<"u1">>]),
   Inbound("STATE_SYNC", [EmptyPayload EXCEPT !.stateUpdates = "state"])}

\* clients that bind one of two user ids (the first together with room r1)
\* and otherwise stay silent until the sweep
SweepMessages ==
  {Inbound("SUBSCRIBE", [EmptyPayload EXCEPT !.userId = "u1", !.rooms = <<"r1">>]),
   Inbound("SUBSCRIBE", [EmptyPayload EXCEPT !.userId = "u2"])}

\* clients that bind u1 (and join room r1) and then u2 and synchronise state
\* with the connections of u1
StaleMessages ==
  {Inbound("SUBSCRIBE", [EmptyPayload EXCEPT !.userId = "u1", !.rooms = <<"r1">>]),
   Inbound("SUBSCRIBE", [EmptyPayload EXCEPT !.userId = "u2"]),
   Inbound("STATE_SYNC", [EmptyPayload EXCEPT !.stateUpdates = "state",
                                              !.targetUsers = <<"u1">>])}

\* clients that send frames of every kind of well-formedness: text that is
\* not JSON, a known type without payload, a type without a case, and
\* well-formed messages that make the server write to the sender (HEARTBEAT)
\* and to the others (EVENT_BROADCAST)
ActivityMessages ==
  {NotJson, Bare("STATE_SYNC"), Inbound("NOT_A_TYPE", EmptyPayload),
   Inbound("HEARTBEAT", EmptyPayload),
   Inbound("EVENT_BROADCAST", [EmptyPayload EXCEPT !.eventType = "ping",
                                                   !.eventPayload = "data"])}

\* clients that bind u1 and join two rooms and two topics, and then leave
\* some of them, rooms and topics that do not exist included
MembershipMessages ==
  {Inbound("SUBSCRIBE", [EmptyPayload EXCEPT !.userId = "u1",
                                             !.rooms = <<"r1", "r2">>,
                                             !.subscriptions = <<"t1", "t2">>]),
   Inbound("SUBSCRIBE", [EmptyPayload EXCEPT !.rooms = <<"r1">>]),
   Inbound("UNSUBSCRIBE", [EmptyPayload EXCEPT !.rooms = <<"r1">>,
                                               !.subscriptions = <<"t1">>]),
   Inbound("UNSUBSCRIBE", [EmptyPayload EXCEPT !.rooms = <<"r2", "r3">>]),
   Inbound("UNSUBSCRIBE", [EmptyPayload EXCEPT !.subscriptions = <<"t2", "t3">>])}

\* clients that send a HEARTBEAT or a frame that is not JSON
EvictMessages == {Inbound("HEARTBEAT", EmptyPayload), NotJson}

\* clients that bind u1 and join r1, bind u2, and broadcast to r1
CascadeMessages ==
  {Inbound("SUBSCRIBE", [EmptyPayload EXCEPT !.userId = "u1", !.rooms = <<"r1">>]),
   Inbound("SUBSCRIBE", [EmptyPayload EXCEPT !.userId = "u2"]),
   Inbound("EVENT_BROADCAST", [EmptyPayload EXCEPT !.eventType = "ping",
                                                   !.eventPayload = "data",
                                                   !.room = "r1"])}

\* the envelope fields a client may put next to type and payload
Envelopes ==
  {[clientId |-> NoId, userId |-> None], [clientId |-> 1, userId |-> "u1"],
   [clientId |-> 2, userId |-> "u2"]}
Envelope(message, e) ==
  [type |-> message.type, payload |-> message.payload,
   clientId |-> e.clientId, userId |-> e.userId]

\* clients that bind u1 and join r1 and then synchronise state and broadcast
\* events under an envelope that names a connection and a user of their
\* choice
OriginMessages ==
  {Envelope(m, e) :
     m \in {Inbound("SUBSCRIBE", [EmptyPayload EXCEPT !.userId = "u1",
                                                      !.rooms = <<"r1">>]),
            Inbound("STATE_SYNC", [EmptyPayload EXCEPT !.stateUpdates = "state"]),
            Inbound("STATE_SYNC", [EmptyPayload EXCEPT !.stateUpdates = "state",
                                                       !.targetUsers = <<"u1">>,
                                                       !.excludeSelf = "false"]),
            Inbound("EVENT_BROADCAST", [EmptyPayload EXCEPT !.eventType = "ping",
                                                            !.eventPayload = "data",
                                                            !.room = "r1"]),
            Inbound("EVENT_BROADCAST", [EmptyPayload EXCEPT !.eventType = "ping",
                                                            !.eventPayload = "data"])},
     e \in Envelopes}

\* clients that join r1 with topic t1, or r2, or bind u1 with topic t2, and
\* leave r1
TripMessages ==
  {Inbound("SUBSCRIBE", [EmptyPayload EXCEPT !.rooms = <<"r1">>,
                                             !.subscriptions = <<"t1">>]),
   Inbound("SUBSCRIBE", [EmptyPayload EXCEPT !.rooms = <<"r2">>]),
   Inbound("SUBSCRIBE", [EmptyPayload EXCEPT !.userId = "u1",
                                             !.subscriptions = <<"t2">>]),
   Inbound("UNSUBSCRIBE", [EmptyPayload EXCEPT !.rooms = <<"r1">>])}

\* clients that bind user ids and send a STATE_SYNC whose targetUsers names
\* one user twice, or both users
TargetMessages ==
  {Inbound("SUBSCRIBE", [EmptyPayload EXCEPT !.userId = u]) : u \in Users}
  \cup {Inbound("STATE_SYNC",
                [EmptyPayload EXCEPT !.stateUpdates = "state", !.targetUsers = l]) :
          l \in {<<"u1", "u1">>, <<"u1", "u2">>}}

\* the type tags handleMessage has a case for
KnownTypes == {"STATE_SYNC", "EVENT_BROADCAST", "SUBSCRIBE", "UNSUBSCRIBE", "HEARTBEAT"}
\* tags without a case: an unknown tag and the two server-only tags
UnknownTypes == {"NOT_A_TYPE", "USER_JOIN", "USER_LEAVE"}
\* clients that bind u1, join r1 and topic t1 with a well-formed SUBSCRIBE and
\* then send messages with a tag that has no case (their payload would bind
\* u2 and join r2 if it were read) or with a payload of the wrong shape
ProtocolMessages ==
  {Inbound("SUBSCRIBE", [EmptyPayload EXCEPT !.userId = "u1", !.rooms = <<"r1">>,
                                             !.subscriptions = <<"t1">>])}
  \cup {Inbound(t, [EmptyPayload EXCEPT !.userId = "u2", !.rooms = <<"r2">>,
                                        !.subscriptions = <<"t2">>,
                                        !.stateUpdates = "state",
                                        !.eventType = "ping"]) : t \in UnknownTypes}
  \cup {Inbound("SUBSCRIBE", [EmptyPayload EXCEPT !.userId = "u2",
                                                  !.subscriptions = <<"t2">>,
                                                  !.rooms = NotAList]),
        Inbound("UNSUBSCRIBE", [EmptyPayload EXCEPT !.subscriptions = NotAList,
                                                    !.rooms = <<"r1">>]),
        Inbound("STATE_SYNC", [EmptyPayload EXCEPT !.stateUpdates = "state",
                                                   !.targetUsers = NotAList]),
        Bare("STATE_SYNC"), Bare("EVENT_BROADCAST"), Bare("SUBSCRIBE"),
        Bare("UNSUBSCRIBE")}

\* ------------------------------------------------------------------ state
Server ==
  [clients |-> clients, rooms |-> rooms, userSessions |-> userSessions,
   readyState |-> readyState, sent |-> <<>>, error |-> FALSE,
   depth |-> 0, deepest |-> 0, entered |-> 0]

\* this.clients.set(clientId, client): a new key goes to the end of the Map,
\* an existing key keeps its place and gets the new value
NewClient(clientId) ==
  [userId |-> None, lastActivity |-> now, subscriptions |-> {},
   ord |-> IF clientId \in DOMAIN clients THEN clients[clientId].ord
           ELSE accepted + 1]

Ran(op, clientId, message) == [op |-> op, clientId |-> clientId, message |-> message]
Idle == last.op = "idle"

\* the maps and the written frames after a callback that ended in record s
\* and that was started by the arrival of connection from, or of a frame of it
CommitFrom(s, from) ==
  /\ clients' = s.clients
  /\ rooms' = s.rooms
  /\ userSessions' = s.userSessions
  /\ sent' = s.sent
  /\ caught' = s.error
  /\ lastInbound' = [c \in DOMAIN s.clients |->
                       IF c = from \/ c \notin DOMAIN lastInbound THEN now
                       ELSE lastInbound[c]]

Commit(s) == CommitFrom(s, NoId)

Init ==
  /\ clients = << >>
  /\ rooms = << >>
  /\ userSessions = << >>
  /\ readyState = [c \in Ids |-> "NONE"]
  /\ heartbeats = {}
  /\ accepted = 0
  /\ now = 0
  /\ advances = 0
  /\ last = Ran("idle", NoId, NoMessage)
  /\ sent = <<>>
  /\ caught = FALSE
  /\ lastInbound = << >>

\* wss.on("connection"): register, send USER_JOIN, wire the handlers, start
\* the heartbeat.  The new socket is open; its first write may already throw.
\* the upgrade request of a connection: q is the sessionId parameter of its URL
Request(q) == [type |-> "request", sessionId |-> q]

\* a connection handler that announces the new connection to everybody
Accept_announcesToAll(clientId, q, rs) ==
  /\ Idle
  /\ accepted < MaxClients
  /\ LET s0 == [Server EXCEPT !.clients = MapSet(@, clientId, NewClient(clientId)),
                              !.readyState[clientId] = rs]
         s1 == broadcastToAll(s0, UserJoin(clientId, extractSessionId(q)), NoId)
     IN /\ CommitFrom(s1, clientId)
        /\ readyState' = s0.readyState
        /\ heartbeats' = heartbeats \cup {clientId}
        /\ accepted' = accepted + 1
        /\ last' = Ran("connection", clientId, Request(q))
  /\ UNCHANGED <<now, advances>>

Accept(clientId, q, rs) ==
  /\ Idle
  /\ accepted < MaxClients
  /\ LET s0 == [Server EXCEPT !.clients = MapSet(@, clientId, NewClient(clientId)),
                              !.readyState[clientId] = rs]
         s1 == sendToClient(s0, clientId, UserJoin(clientId, extractSessionId(q)))
     IN /\ CommitFrom(s1, clientId)
        /\ readyState' = s0.readyState
        /\ heartbeats' = heartbeats \cup {clientId}
        /\ accepted' = accepted + 1
        /\ last' = Ran("connection", clientId, Request(q))
  /\ UNCHANGED <<now, advances>>

\* the accepted connections get the identifiers 1, 2, 3, ... in accept order
Connect(q, rs) == Accept(accepted + 1, q, rs)

\* the accepted connection gets the identifier generateClientId computes from
\* the clock and the random draw r
ConnectGenerated(q, r) == Accept(generateClientId(now, r), q, "OPEN")

\* ws.on("message"): JSON.parse, then handleMessage
Receive(clientId, message) ==
  /\ Idle
  /\ readyState[clientId] \in {"OPEN", "BROKEN", "CLOSING"}
  /\ CommitFrom(onMessage(Server, clientId, message), clientId)
  /\ last' = Ran("message", clientId, message)
  /\ UNCHANGED <<readyState, heartbeats, accepted, now, advances>>

\* ws.on("close")
TransportClose(clientId) ==
  /\ Idle
  /\ readyState[clientId] \in {"OPEN", "BROKEN", "CLOSING"}
  /\ readyState' = [readyState EXCEPT ![clientId] = "CLOSED"]
  /\ Commit(handleDisconnection([Server EXCEPT !.readyState = readyState'], clientId))
  /\ last' = Ran("close", clientId, NoMessage)
  /\ UNCHANGED <<heartbeats, accepted, now, advances>>

\* ws.on("error"): the socket is on its way down, its close event follows
TransportError(clientId) ==
  /\ Idle
  /\ readyState[clientId] \in {"OPEN", "BROKEN"}
  /\ readyState' = [readyState EXCEPT ![clientId] = "CLOSING"]
  /\ Commit(handleDisconnection([Server EXCEPT !.readyState = readyState'], clientId))
  /\ last' = Ran("error", clientId, NoMessage)
  /\ UNCHANGED <<heartbeats, accepted, now, advances>>

\* the socket leaves readyState OPEN, or its writes start to throw, without
\* any callback of the server running
TransportFault(clientId, rs) ==
  /\ Idle
  /\ \/ readyState[clientId] = "OPEN" /\ rs \in {"BROKEN", "CLOSING"}
     \/ readyState[clientId] = "BROKEN" /\ rs = "CLOSING"
  /\ readyState' = [readyState EXCEPT ![clientId] = rs]
  /\ UNCHANGED <<clients, rooms, userSessions, heartbeats, accepted, now, advances,
                 last, sent, caught, lastInbound>>

\* a heartbeat callback that never clears its interval
HeartbeatTick_keepsTicking(clientId) ==
  /\ Idle
  /\ clientId \in heartbeats
  /\ heartbeats' = heartbeats
  /\ Commit(sendToClient(Server, clientId,
                         Message("HEARTBEAT", [ping |-> "true"], NoId)))
  /\ last' = Ran("heartbeat", clientId, NoMessage)
  /\ UNCHANGED <<readyState, accepted, now, advances>>

\* the setInterval callback of startHeartbeat
HeartbeatTick(clientId) ==
  /\ Idle
  /\ clientId \in heartbeats
  /\ IF clientId \notin DOMAIN clients \/ ~IsOpen(Server, clientId)
     THEN /\ heartbeats' = heartbeats \ {clientId}
          /\ Commit(Server)
     ELSE /\ heartbeats' = heartbeats
          /\ Commit(sendToClient(Server, clientId,
                                 Message("HEARTBEAT", [ping |-> "true"], NoId)))
  /\ last' = Ran("heartbeat", clientId, NoMessage)
  /\ UNCHANGED <<readyState, accepted, now, advances>>

\* the setInterval callback of initialize
Sweep ==
  /\ Idle
  /\ Commit(cleanupInactiveClients(Server))
  /\ last' = Ran("sweep", NoId, NoMessage)
  /\ UNCHANGED <<readyState, heartbeats, accepted, now, advances>>

\* time passes
Advance(d) ==
  /\ Idle
  /\ advances < MaxAdvances
  /\ now' = now + d
  /\ advances' = advances + 1
  /\ UNCHANGED <<clients, rooms, userSessions, readyState, heartbeats, accepted,
                 last, sent, caught, lastInbound>>

\* the callback has returned; the event loop takes the next event
Return ==
  /\ ~Idle
  /\ last' = Ran("idle", NoId, NoMessage)
  /\ sent' = <<>>
  /\ caught' = FALSE
  /\ UNCHANGED <<clients, rooms, userSessions, readyState, heartbeats, accepted,
                 now, advances, lastInbound>>

\* the events every run has: accepts, transport events, callback return
Lifecycle ==
  \/ \E q \in {None, "s1"}, rs \in {"OPEN", "BROKEN"} : Connect(q, rs)
  \/ \E c \in Ids : TransportClose(c)
  \/ \E c \in Ids : TransportError(c)
  \/ \E c \in Ids, rs \in {"BROKEN", "CLOSING"} : TransportFault(c, rs)
  \/ Return

Timers ==
  \/ Sweep
  \/ \E d \in {Timeout + 1} : Advance(d)

Next ==
  \/ Lifecycle
  \/ Timers
  \/ \E c \in Ids : HeartbeatTick(c)
  \/ \E c \in Ids, m \in MixedMessages : Receive(c, m)

NextRooms ==
  \/ Lifecycle
  \/ \E c \in Ids, m \in RoomMessages : Receive(c, m)

NextUsers ==
  \/ Lifecycle
  \/ \E c \in Ids, m \in UserMessages : Receive(c, m)

NextBroadcast ==
  \/ Lifecycle
  \/ \E c \in Ids, m \in BroadcastMessages : Receive(c, m)

NextSweep ==
  \/ Lifecycle
  \/ Timers
  \/ \E c \in Ids, m \in SweepMessages : Receive(c, m)

\* connections that stay up until a write to them raises or the sweep evicts
\* them, their sockets still delivering messages afterwards
NextStale ==
  \/ \E rs \in {"OPEN", "BROKEN"} : Connect("s1", rs)
  \/ \E c \in Ids : TransportFault(c, "BROKEN")
  \/ Timers
  \/ \E c \in Ids, m \in StaleMessages : Receive(c, m)
  \/ Return

\* connections that are written to by heartbeat ticks, broadcasts and
\* USER_LEAVE while the clock advances
NextActivity ==
  \/ \E rs \in {"OPEN", "BROKEN"} : Connect("s1", rs)
  \/ \E c \in Ids : TransportClose(c)
  \/ \E c \in Ids : HeartbeatTick(c)
  \/ Timers
  \/ \E c \in Ids, m \in ActivityMessages : Receive(c, m)
  \/ Return

\* connections that join and leave rooms and topics
NextMembership ==
  \/ Connect("s1", "OPEN")
  \/ \E c \in Ids : TransportClose(c)
  \/ \E c \in Ids, m \in MembershipMessages : Receive(c, m)
  \/ Return

\* connections that join rooms and topics and close
NextTrip ==
  \/ Connect("s1", "OPEN")
  \/ \E c \in Ids : TransportClose(c)
  \/ \E c \in Ids, m \in TripMessages : Receive(c, m)
  \/ Return

\* connections whose messages carry an envelope
NextOrigin ==
  \/ \E rs \in {"OPEN", "BROKEN"} : Connect("s1", rs)
  \/ \E c \in Ids : TransportClose(c)
  \/ \E c \in Ids, m \in OriginMessages : Receive(c, m)
  \/ Return

\* connections that are silent or send a frame while the clock advances by
\* exactly the timeout or by one millisecond more, and the sweep
NextEvict ==
  \/ \E rs \in {"OPEN", "BROKEN"} : Connect("s1", rs)
  \/ \E c \in Ids : TransportFault(c, "BROKEN")
  \/ \E d \in {Timeout, Timeout + 1} : Advance(d)
  \/ Sweep
  \/ \E c \in Ids, m \in EvictMessages : Receive(c, m)
  \/ Return

\* connections that are accepted and closed while their heartbeat timers fire
NextTick ==
  \/ \E rs \in {"OPEN", "BROKEN"} : Connect("s1", rs)
  \/ \E c \in Ids : TransportClose(c)
  \/ \E c \in Ids : HeartbeatTick(c)
  \/ Return

\* connections whose writes start to throw, under every callback that can
\* reach handleDisconnection
NextCascade ==
  \/ Connect("s1", "OPEN")
  \/ \E c \in Ids : TransportFault(c, "BROKEN")
  \/ \E c \in Ids : TransportClose(c)
  \/ \E c \in Ids : TransportError(c)
  \/ Timers
  \/ \E c \in Ids, m \in CascadeMessages : Receive(c, m)
  \/ Return

NextProtocol ==
  \/ Lifecycle
  \/ \E c \in Ids, m \in ProtocolMessages : Receive(c, m)

\* Math.random() as far as the identifier shows it
Randoms == {0, 1}
\* every identifier generateClientId can compute while the clock of the model runs
GenIds ==
  {generateClientId(k * (Timeout + 1), r) : k \in 0..MaxAdvances, r \in Randoms}

InitIds ==
  /\ clients = << >>
  /\ rooms = << >>
  /\ userSessions = << >>
  /\ readyState = [c \in GenIds |-> "NONE"]
  /\ heartbeats = {}
  /\ accepted = 0
  /\ now = 0
  /\ advances = 0
  /\ last = Ran("idle", NoId, NoMessage)
  /\ sent = <<>>
  /\ caught = FALSE
  /\ lastInbound = << >>

\* accepts with generated identifiers; the connections join room r1, close
\* and fail, and the clock advances
NextIds ==
  \/ \E q \in {None, "s1"}, r \in Randoms : ConnectGenerated(q, r)
  \/ \E c \in GenIds : TransportClose(c)
  \/ \E c \in GenIds : TransportError(c)
  \/ \E c \in GenIds :
        Receive(c, Inbound("SUBSCRIBE", [EmptyPayload EXCEPT !.rooms = <<"r1">>]))
  \/ \E d \in {Timeout + 1} : Advance(d)
  \/ Return

NextTargets ==
  \/ Lifecycle
  \/ \E c \in Ids, m \in TargetMessages : Receive(c, m)

Spec == Init /\ [][Next]_vars
SpecRooms == Init /\ [][NextRooms]_vars
SpecUsers == Init /\ [][NextUsers]_vars
SpecBroadcast == Init /\ [][NextBroadcast]_vars
SpecProtocol == Init /\ [][NextProtocol]_vars
SpecIds == InitIds /\ [][NextIds]_vars
SpecTargets == Init /\ [][NextTargets]_vars
SpecStale == Init /\ [][NextStale]_vars
SpecActivity == Init /\ [][NextActivity]_vars
SpecMembership == Init /\ [][NextMembership]_vars
SpecTrip == Init /\ [][NextTrip]_vars
SpecOrigin == Init /\ [][NextOrigin]_vars
SpecEvict == Init /\ [][NextEvict]_vars
SpecCascade == Init /\ [][NextCascade]_vars
\* setInterval fires every 30 s for as long as it is not cleared, and every
\* callback returns
SpecTick ==
  /\ Init /\ [][NextTick]_vars
  /\ WF_vars(Return)
  /\ \A c \in Ids : SF_vars(HeartbeatTick(c))
SpecSweep == Init /\ [][NextSweep]_vars
\* The event loop runs every callback to its end and runs the sweep timer
\* (setInterval, 30 s) again and again; the clock goes on.
SpecSweepFair ==
  /\ SpecSweep
  /\ WF_vars(Return)
  /\ SF_vars(Sweep)
  /\ SF_vars(\E d \in {Timeout + 1} : Advance(d))

\* ------------------------------------------------------------ observations
Registered == DOMAIN clients
membersOf(roomId) == Elems(LiveSet(rooms, roomId))
connectionsOf(userId) == Elems(LiveSet(userSessions, userId))

\* the frames of one type among the written ones
Frames(q, type) == {i \in 1..Len(q) : q[i].msg.type = type}
\* the USER_LEAVE frames about connection x
LeaveFrames(q, x) == {i \in Frames(q, "USER_LEAVE") : q[i].msg.payload.clientId = x}
LastIsMessage(type) == last.op = "message" /\ last.message.type = type

\* C1: every connection identifier in a room's member set is in the registry,
\* after any sequence of connects, SUBSCRIBE/UNSUBSCRIBE, closes, errors, send
\* failures and sweeps
C1_RoomMembersRegistered ==
  \A r \in DOMAIN rooms : Elems(rooms[r]) \subseteq Registered

\* a sweep has evicted a connection while another one stays in a room
C1_Witness ==
  /\ last.op = "sweep"
  /\ \E x \in Ids : /\ x \notin Registered
                     /\ \E i \in LeaveFrames(sent, x) : sent[i].msg.payload.userId = "u1"
  /\ \E r \in DOMAIN rooms : rooms[r] # <<>>

\* C2: every connection identifier in a user's session set is in the registry,
\* also after a connection has sent SUBSCRIBE with different userId values
C2_UserSessionsRegistered ==
  \A u \in DOMAIN userSessions : Elems(userSessions[u]) \subseteq Registered

\* C3: no room entry and no user-session entry has an empty member set
C3_NoEmptyEntries ==
  /\ \A r \in DOMAIN rooms : Len(rooms[r]) > 0
  /\ \A u \in DOMAIN userSessions : Len(userSessions[u]) > 0

\* the only member of room r1 has just left it by UNSUBSCRIBE (it is bound to
\* u1, and the SUBSCRIBE that binds u1 is the one that joins r1), and the room
\* entry is gone
C3_Witness ==
  /\ LastIsMessage("UNSUBSCRIBE")
  /\ last.clientId \in connectionsOf("u1")
  /\ last.clientId \in Registered
  /\ "r1" \notin DOMAIN rooms

\* ----------------------------------------------------------------- routing
\* the connections that got a frame of the type, and how many copies each
ToOf(q, type) == {q[i].to : i \in Frames(q, type)}
Copies(q, type, c) == Cardinality({i \in Frames(q, type) : q[i].to = c})
\* a registered connection whose socket is open and takes writes: delivery
\* is best effort, a target that is not writable gets nothing (sendToClient)
Writable(c) == c \in Registered /\ readyState[c] = "OPEN"
\* every frame of the type went to a connection of T, and every writable
\* connection of T got exactly one
DeliveredExactly(q, type, T) ==
  /\ ToOf(q, type) \subseteq T
  /\ \A m \in T : Writable(m) => Copies(q, type, m) = 1

\* C4: an EVENT_BROADCAST from registered S that names room R is delivered to
\* exactly membersOf(R) minus S as the room stands at dispatch, whether or not
\* S is a member (a member that cannot be written to gets nothing)
C4_RoomBroadcast ==
  [][(/\ last'.op = "message"
      /\ last'.message.type = "EVENT_BROADCAST"
      /\ last'.message.payload.room # None
      /\ last'.clientId \in Registered)
     => DeliveredExactly(sent', "EVENT_BROADCAST",
                         membersOf(last'.message.payload.room) \ {last'.clientId})]_vars

\* S is a member of R, another member got the event, S did not, and a
\* registered open connection outside R did not
C4_Witness ==
  /\ LastIsMessage("EVENT_BROADCAST")
  /\ last.message.payload.room # None
  /\ last.clientId \in membersOf(last.message.payload.room)
  /\ \E m \in membersOf(last.message.payload.room) \ {last.clientId} :
        Copies(sent, "EVENT_BROADCAST", m) = 1
  /\ Copies(sent, "EVENT_BROADCAST", last.clientId) = 0
  /\ \E n \in Registered \ membersOf(last.message.payload.room) :
        readyState[n] = "OPEN" /\ Copies(sent, "EVENT_BROADCAST", n) = 0

\* C5: an EVENT_BROADCAST from registered S that names no room is delivered
\* to every connection registered at dispatch except S, and the outbound
\* payload carries S's identifier as its source
C5_BroadcastToAll ==
  [][(/\ last'.op = "message"
      /\ last'.message.type = "EVENT_BROADCAST"
      /\ last'.message.payload.room = None
      /\ last'.clientId \in Registered)
     => /\ DeliveredExactly(sent', "EVENT_BROADCAST", Registered \ {last'.clientId})
        /\ \A i \in Frames(sent', "EVENT_BROADCAST") :
              sent'[i].msg.payload.sourceClientId = last'.clientId]_vars

\* both other connections got the event of the third, with its identifier
C5_Witness ==
  /\ LastIsMessage("EVENT_BROADCAST")
  /\ last.message.payload.room = None
  /\ Cardinality(ToOf(sent, "EVENT_BROADCAST")) = 2
  /\ \A i \in Frames(sent, "EVENT_BROADCAST") :
        sent[i].msg.payload.sourceClientId = last.clientId

\* the sender is left out when excludeSelf is true or left undefined
Excluded(message, clientId) ==
  IF message.payload.excludeSelf \in {None, "true"} THEN {clientId} ELSE {}

\* C6: a STATE_SYNC from S with targetUsers = [u] is delivered to exactly
\* connectionsOf(u) minus S when excludeSelf is true or omitted, and to exactly
\* connectionsOf(u), S included when it is in it, when excludeSelf is false
C6_StateSyncToUser ==
  [][(/\ last'.op = "message"
      /\ last'.message.type = "STATE_SYNC"
      /\ last'.message.payload.targetUsers # NoList
      /\ Len(last'.message.payload.targetUsers) = 1
      /\ last'.clientId \in Registered)
     => DeliveredExactly(sent', "STATE_SYNC",
                         connectionsOf(last'.message.payload.targetUsers[1])
                           \ Excluded(last'.message, last'.clientId))]_vars

\* excludeSelf is false: the sender, bound to u, got its own message, another
\* connection of u got it, and an open connection outside u did not
C6_Witness ==
  /\ LastIsMessage("STATE_SYNC")
  /\ last.message.payload.targetUsers = <<"u1">>
  /\ last.message.payload.excludeSelf = "false"
  /\ last.clientId \in Registered
  /\ clients[last.clientId].userId = "u1"
  /\ Copies(sent, "STATE_SYNC", last.clientId) = 1
  /\ \E m \in connectionsOf("u1") \ {last.clientId} : Copies(sent, "STATE_SYNC", m) = 1
  /\ \E n \in Registered \ connectionsOf("u1") :
        readyState[n] = "OPEN" /\ Copies(sent, "STATE_SYNC", n) = 0

\* C7: a STATE_SYNC whose targetUsers is absent or empty is delivered to all
\* registered connections, minus the sender when excludeSelf is true or
\* omitted, the sender included when excludeSelf is false
C7_StateSyncToAll ==
  [][(/\ last'.op = "message"
      /\ last'.message.type = "STATE_SYNC"
      /\ last'.message.payload.targetUsers \in {NoList, <<>>}
      /\ last'.clientId \in Registered)
     => DeliveredExactly(sent', "STATE_SYNC",
                         Registered \ Excluded(last'.message, last'.clientId))]_vars

\* an empty targetUsers list with excludeSelf omitted: both other connections
\* got the state, the sender did not
C7_Witness ==
  /\ LastIsMessage("STATE_SYNC")
  /\ last.message.payload.targetUsers = <<>>
  /\ last.message.payload.excludeSelf = None
  /\ Cardinality(ToOf(sent, "STATE_SYNC")) = 2
  /\ last.clientId \notin ToOf(sent, "STATE_SYNC")

\* ------------------------------------------------------------- disconnects
\* C8: the Disconnect Procedure takes effect exactly once per connection.
\* A close or error event for an identifier that is no longer registered
\* changes nothing and sends nothing; a USER_LEAVE about c is written only in
\* the step that removes c from the registry (c was registered, or is accepted
\* and fails in this very step), once per target; a removed
\* identifier is never registered again; and the first close or error event
\* of a registered connection removes it and announces it.
C8_DisconnectOnce ==
  [][/\ (last'.op \in {"close", "error"} /\ last'.clientId \notin Registered)
        => /\ clients' = clients
           /\ rooms' = rooms
           /\ userSessions' = userSessions
           /\ sent' = <<>>
     /\ \A c \in Ids :
          /\ LeaveFrames(sent', c) # {}
             => /\ c \in Registered \/ (c > accepted /\ c = accepted')
                /\ c \notin Registered'
          /\ \A d \in Ids : Cardinality({i \in LeaveFrames(sent', c) : sent'[i].to = d}) <= 1
          /\ (c <= accepted /\ c \notin Registered) => c \notin Registered'
     /\ (last'.op \in {"close", "error"} /\ last'.clientId \in Registered)
        => /\ last'.clientId \notin Registered'
           /\ \A d \in Registered \ {last'.clientId} :
                Writable(d) => \E i \in LeaveFrames(sent', last'.clientId) : sent'[i].to = d
    ]_vars

\* a close event that wrote nothing although an open connection is registered:
\* the closed connection had been removed before (by an error event, a failed
\* send or the sweep)
C8_Witness ==
  /\ last.op = "close"
  /\ sent = <<>>
  /\ \E d \in Registered : readyState[d] = "OPEN"

\* C9: when connection X is disconnected, a USER_LEAVE carrying X's identifier
\* and the userId X had bound is sent to every connection still registered,
\* never to X, and when it is sent X is already absent from the registry, from
\* every room and from every user-session set.  (The handler adds nothing to
\* a set after the broadcast, so X is in a set when the frame is written
\* exactly if it is in it when the callback returns.)
C9_UserLeaveAfterPurge ==
  [][\A x \in Ids :
       LeaveFrames(sent', x) # {}
       => /\ x \notin Registered'
          /\ \A r \in DOMAIN rooms' : ~SetHas(rooms'[r], x)
          /\ \A u \in DOMAIN userSessions' : ~SetHas(userSessions'[u], x)
          /\ \A i \in LeaveFrames(sent', x) :
                /\ sent'[i].to # x
                /\ x \in Registered => sent'[i].msg.payload.userId = clients[x].userId
          /\ \A d \in Registered' :
                readyState'[d] = "OPEN" => \E i \in LeaveFrames(sent', x) : sent'[i].to = d
    ]_vars

\* the connections a message callback writes to: the sender of a HEARTBEAT
\* (the reply), everybody but the sender of an EVENT_BROADCAST without a room
SendTargets(message, clientId) ==
  CASE message.type = "HEARTBEAT" -> {clientId}
    [] message.type = "EVENT_BROADCAST" /\ message.payload.room = None ->
         Registered \ {clientId}
    [] OTHER -> {}

\* C10: whenever a send to a registered connection fails, because its
\* transport is not open or because the write raises an error, the connection
\* is removed from the registry before the send returns, and it is given
\* nothing
C10_FailedSendDisconnects ==
  [][(last'.op = "message" /\ last'.clientId \in Registered)
     => \A c \in SendTargets(last'.message, last'.clientId) :
          readyState[c] # "OPEN"
          => /\ c \notin Registered'
             /\ \A i \in 1..Len(sent') : sent'[i].to # c]_vars

\* ------------------------------------------------------- broadcast failures
\* the target set a broadcasting message resolves to, as the maps stand when
\* the message is dispatched
ResolvedTargets(message, clientId) ==
  CASE message.type = "EVENT_BROADCAST" /\ message.payload.room # None ->
         membersOf(message.payload.room) \ {clientId}
    [] message.type = "EVENT_BROADCAST" /\ message.payload.room = None ->
         Registered \ {clientId}
    [] message.type = "STATE_SYNC" /\ message.payload.targetUsers \in {NoList, <<>>} ->
         Registered \ Excluded(message, clientId)
    [] message.type = "STATE_SYNC" ->
         UNION {connectionsOf(u) : u \in Elems(message.payload.targetUsers)}
           \ Excluded(message, clientId)
    [] OTHER -> {}

\* C11: during a broadcast (to all, to a room, to a user) a write that raises
\* an error for one target does not stop the broadcast: every other target of
\* the resolved set that is still registered and whose socket takes writes
\* gets the message once, a target whose write raises is disconnected, and
\* nobody is disconnected whose write did not raise
C11_FailureDoesNotStopBroadcast ==
  [][(/\ last'.op = "message"
      /\ last'.message.type \in {"EVENT_BROADCAST", "STATE_SYNC"}
      /\ last'.clientId \in Registered)
     => LET T == ResolvedTargets(last'.message, last'.clientId)
        IN /\ ToOf(sent', last'.message.type) \subseteq T
           /\ \A m \in T : (m \in Registered' /\ readyState[m] = "OPEN")
                              => Copies(sent', last'.message.type, m) = 1
           /\ \A m \in T \cap Registered : readyState[m] = "BROKEN" => m \notin Registered'
           /\ \A c \in Registered \ Registered' : readyState[c] = "BROKEN"]_vars

\* a room broadcast whose first target failed: the later target was told that
\* the first one left and then still got the event
C11_Witness ==
  /\ LastIsMessage("EVENT_BROADCAST")
  /\ last.message.payload.room = "r1"
  /\ \E i, j \in 1..Len(sent) :
        /\ i < j
        /\ sent[i].msg.type = "USER_LEAVE"
        /\ sent[i].msg.payload.clientId # last.clientId
        /\ sent[j].msg.type = "EVENT_BROADCAST"
        /\ sent[j].to = sent[i].to
        /\ sent[i].msg.payload.clientId < sent[j].to

\* --------------------------------------------------------------- the sweep
\* last-activity older than the inactivity timeout
Inactive(c) == now - clients[c].lastActivity > Timeout

\* C12: a registered connection whose last-activity is older than the timeout
\* when a sweep runs is removed by that sweep from the registry, from every
\* room and from every user-session set, and a USER_LEAVE for it goes to all
\* remaining connections
C12_SweepEvicts ==
  [][last'.op = "sweep"
     => \A c \in Registered :
          Inactive(c)
          => /\ c \notin Registered'
             /\ \A r \in DOMAIN rooms' : ~SetHas(rooms'[r], c)
             /\ \A u \in DOMAIN userSessions' : ~SetHas(userSessions'[u], c)
             /\ \A d \in Registered' :
                   readyState'[d] = "OPEN"
                   => \E i \in LeaveFrames(sent', c) : sent'[i].to = d]_vars

\* the second half of C12: under a fair sweep timer a connection that sends
\* no further inbound message is eventually evicted (as long as the clock of
\* the model can still advance)
C12_EventuallyEvicted ==
  \A c \in Ids :
    [](c \in Registered /\ advances < MaxAdvances
       => <>(c \notin Registered \/ (last.op = "message" /\ last.clientId = c)))

\* ---------------------------------------------------------- protocol faults
\* the callback left rooms, user sessions and, for every connection, its
\* bound user and its topics as they were
IndexesUnchanged ==
  /\ rooms' = rooms
  /\ userSessions' = userSessions
  /\ DOMAIN clients' = DOMAIN clients
  /\ \A c \in DOMAIN clients :
        /\ clients'[c].userId = clients[c].userId
        /\ clients'[c].subscriptions = clients[c].subscriptions

\* C13: an inbound message whose type is not STATE_SYNC, EVENT_BROADCAST,
\* SUBSCRIBE, UNSUBSCRIBE or HEARTBEAT (an unknown tag, USER_JOIN, USER_LEAVE)
\* delivers nothing, changes no room, user session or subscription, and the
\* sender stays registered
C13_UnknownTypeDropped ==
  [][(/\ last'.op = "message"
      /\ last'.message.type \notin KnownTypes
      /\ last'.clientId \in Registered)
     => /\ sent' = <<>>
        /\ IndexesUnchanged
        /\ last'.clientId \in Registered']_vars

\* a USER_LEAVE sent by a connection that is bound to u1 and sits in r1,
\* while another connection is registered and open: nothing was written
C13_Witness ==
  /\ LastIsMessage("USER_LEAVE")
  /\ last.clientId \in Registered
  /\ clients[last.clientId].userId = "u1"
  /\ last.clientId \in membersOf("r1")
  /\ \E d \in Registered \ {last.clientId} : readyState[d] = "OPEN"
  /\ sent = <<>>

\* a payload of the wrong shape: none at all, or a list field that holds a
\* value which is not an array
Malformed(message) ==
  \/ "payload" \notin DOMAIN message
  \/ message.payload.rooms = NotAList
  \/ message.payload.subscriptions = NotAList
  \/ message.payload.targetUsers = NotAList

\* C14: an inbound message of a known type whose payload has the wrong shape
\* is dropped as a whole: the connection's userId, its subscriptions, every
\* room and every user-session set stay as they were, nothing is delivered,
\* and the connection stays registered
C14_MalformedDroppedWhole ==
  [][(/\ last'.op = "message"
      /\ last'.message.type \in KnownTypes
      /\ Malformed(last'.message)
      /\ last'.clientId \in Registered)
     => /\ sent' = <<>>
        /\ IndexesUnchanged
        /\ last'.clientId \in Registered']_vars

\* ------------------------------------------------------------- identifiers
\* C15: the generated connection identifiers are pairwise distinct: an accept
\* never gets an identifier that was given out before, so it neither
\* overwrites a registry entry nor registers a removed identifier again
C15_IdsDistinct ==
  [][last'.op = "connection" => readyState[last'.clientId] = "NONE"]_vars

\* ------------------------------------------------------- heartbeat timers
\* C16: the heartbeat timer of a connection is cancelled in the step that
\* removes the connection from the registry: in no reachable state is a timer
\* still scheduled for an identifier that is absent from the registry
C16_TimerCancelledWithRemoval == heartbeats \subseteq Registered

\* ---------------------------------------------------------------- accepts
\* C17: on accepting a connection a USER_JOIN that carries its identifier and
\* its session identifier is sent to that connection only and is the first
\* frame it is ever sent (no frame goes to an identifier before its accept);
\* no connection registered before gets a frame because of the registration:
\* when the new socket takes the write the USER_JOIN is the only frame of the
\* step, and when that write raises the others are told USER_LEAVE by the
\* Disconnect Procedure (about the new connection, and about any other one
\* whose write raises in turn) and nothing else
C17_UserJoinToSelfOnly ==
  [][/\ \A i \in 1..Len(sent') :
          \/ sent'[i].to \in Registered
          \/ last'.op = "connection" /\ sent'[i].to = last'.clientId
     /\ last'.op = "connection"
        => LET c == last'.clientId
               join == [to |-> c,
                        msg |-> UserJoin(c, extractSessionId(last'.message.sessionId))]
           IN /\ readyState'[c] = "OPEN" => sent' = <<join>>
              /\ \A i \in 1..Len(sent') :
                    IF sent'[i].to = c THEN i = 1 /\ sent'[i] = join
                    ELSE /\ readyState'[c] = "BROKEN"
                         /\ c \notin Registered'
                         /\ sent'[i].msg.type = "USER_LEAVE"
                         /\ sent'[i].msg.payload.clientId \notin Registered'
    ]_vars

\* the third connection is accepted while two open ones are registered: the
\* one frame of the step is its USER_JOIN with the session of its URL
C17_Witness ==
  /\ last.op = "connection"
  /\ last.message.sessionId = "s1"
  /\ Cardinality(Registered) = 3
  /\ \A d \in Registered : readyState[d] = "OPEN"
  /\ Len(sent) = 1
  /\ sent[1].to = last.clientId
  /\ sent[1].msg.type = "USER_JOIN"
  /\ sent[1].msg.payload = [clientId |-> last.clientId, sessionId |-> "s1"]

\* ------------------------------------------------------- inbound HEARTBEAT
\* the reply of handleHeartbeat to connection c
Alive(c) == [to |-> c, msg |-> Message("HEARTBEAT", [status |-> "alive"], NoId)]

\* C18: an inbound HEARTBEAT from a registered connection sets its
\* last-activity to the current time and produces exactly one reply, a
\* HEARTBEAT with payload status alive, to the sender only; it changes no
\* room, user session or subscription.  (The reply is best effort: a sender
\* whose socket has left OPEN gets none, and a sender whose write raises is
\* disconnected; no HEARTBEAT frame goes to anybody else in any case.)
C18_HeartbeatReply ==
  [][(/\ last'.op = "message"
      /\ last'.message.type = "HEARTBEAT"
      /\ last'.clientId \in Registered)
     => LET c == last'.clientId
        IN /\ \A i \in Frames(sent', "HEARTBEAT") : sent'[i] = Alive(c)
           /\ Cardinality(Frames(sent', "HEARTBEAT")) <= 1
           /\ readyState[c] = "OPEN"
              => /\ sent' = <<Alive(c)>>
                 /\ clients'[c].lastActivity = now
                 /\ IndexesUnchanged
           /\ readyState[c] = "CLOSING"
              => /\ sent' = <<>>
                 /\ clients'[c].lastActivity = now
                 /\ IndexesUnchanged]_vars

\* after the clock moved, the first connection (bound to u1, in r1) sends a
\* HEARTBEAT while another open connection is registered whose last-activity
\* is still the old time: one reply, to the sender, and its last-activity is now
C18_Witness ==
  /\ LastIsMessage("HEARTBEAT")
  /\ last.clientId \in Registered
  /\ sent = <<Alive(last.clientId)>>
  /\ now > 0
  /\ clients[last.clientId].lastActivity = now
  /\ clients[last.clientId].userId = "u1"
  /\ last.clientId \in membersOf("r1")
  /\ \E d \in Registered :
        d > last.clientId /\ readyState[d] = "OPEN" /\ clients[d].lastActivity = 0

\* -------------------------------------------------- unregistered senders
\* C19: an inbound message of any type from an identifier that is not in the
\* registry is a no-op: it raises no error, changes no registry or index
\* state, registers nothing and delivers nothing
C19_UnregisteredSenderNoOp ==
  [][(last'.op = "message" /\ last'.clientId \notin Registered)
     => /\ clients' = clients
        /\ rooms' = rooms
        /\ userSessions' = userSessions
        /\ sent' = <<>>
        /\ caught' = FALSE]_vars

\* a SUBSCRIBE from a connection the sweep has evicted, its socket still
\* open, while another open connection is registered
C19_Witness ==
  /\ LastIsMessage("SUBSCRIBE")
  /\ last.clientId \notin Registered
  /\ readyState[last.clientId] = "OPEN"
  /\ \E d \in Registered : readyState[d] = "OPEN"
  /\ sent = <<>>
  /\ ~caught

\* ------------------------------------------------------- several targets
\* C20: a STATE_SYNC with a non-empty targetUsers list is delivered to the
\* union of the listed users' connections, one copy to each connection of the
\* union, also when the list names a user twice or names two users whose
\* session sets share a connection
C20_OneCopyPerConnection ==
  [][(/\ last'.op = "message"
      /\ last'.message.type = "STATE_SYNC"
      /\ last'.message.payload.targetUsers # NoList
      /\ Len(last'.message.payload.targetUsers) > 0
      /\ last'.clientId \in Registered)
     => DeliveredExactly(sent', "STATE_SYNC",
                         ResolvedTargets(last'.message, last'.clientId))]_vars

\* ------------------------------------------------------------ user binding
\* C21: in every reachable state a connection c is in the session set of
\* user u if and only if c is registered and its bound userId is u (so c is in
\* at most one user's set), and a STATE_SYNC targeted at user u alone is never
\* delivered to a connection whose userId is not u
C21_SessionSetIffBound ==
  /\ [](\A u \in Users, c \in Ids :
          SetHas(LiveSet(userSessions, u), c)
          <=> (c \in Registered /\ clients[c].userId = u))
  /\ [][(/\ last'.op = "message"
          /\ last'.message.type = "STATE_SYNC"
          /\ last'.message.payload.targetUsers # NoList
          /\ Len(last'.message.payload.targetUsers) = 1
          /\ last'.clientId \in Registered)
         => \A c \in ToOf(sent', "STATE_SYNC") :
              clients[c].userId = last'.message.payload.targetUsers[1]]_vars

\* ------------------------------------------------- sends go by the registry
\* C22: no message of any type is delivered to a connection that is absent
\* from the registry at the moment of the send.  Every frame of a callback
\* goes to a connection that was registered when the callback began (or is
\* accepted by it); none goes to a connection after the callback has removed
\* it (no frame to c follows the USER_LEAVE about c, and a connection that
\* is removed because its write raised is written nothing at all); so an
\* identifier left in a target set after its removal receives nothing
C22_NoSendToUnregistered ==
  [][/\ \A i \in 1..Len(sent') :
          \/ sent'[i].to \in Registered
          \/ last'.op = "connection" /\ sent'[i].to = last'.clientId
     /\ \A i, j \in 1..Len(sent') :
          (i < j /\ sent'[i].msg.type = "USER_LEAVE")
          => sent'[j].to # sent'[i].msg.payload.clientId
     /\ \A i \in 1..Len(sent') :
          sent'[i].to \notin Registered' => last'.op = "sweep"]_vars

\* a STATE_SYNC for u1 while the session set of u1 still holds a connection
\* the sweep has evicted, its socket open: another connection of u1 got the
\* state, the evicted one got nothing
C22_Witness ==
  /\ LastIsMessage("STATE_SYNC")
  /\ \E x \in connectionsOf("u1") \ Registered :
        /\ readyState[x] = "OPEN"
        /\ x # last.clientId
        /\ Copies(sent, "STATE_SYNC", x) = 0
  /\ \E d \in connectionsOf("u1") \cap Registered : Copies(sent, "STATE_SYNC", d) = 1

\* ------------------------------------------------------------ last-activity
\* C23: every inbound message from a registered connection, whatever its
\* type and whether or not it is well-formed, sets that connection's
\* last-activity to the current time, and nothing else changes it: frames
\* the server writes to the connection (heartbeat pings, broadcasts,
\* USER_LEAVE) leave it as it was
C23_LastActivity ==
  [][\A c \in Registered \cap Registered' :
       IF last'.op = "message" /\ last'.clientId = c
       THEN clients'[c].lastActivity = now
       ELSE clients'[c].lastActivity = clients[c].lastActivity]_vars

\* ------------------------------------------------------------ UNSUBSCRIBE
\* the rooms and the topics a payload lists
Listed(l) == IF l = NoList THEN {} ELSE Elems(l)

\* C24: UNSUBSCRIBE removes only the listed topics from the sender's
\* subscription set and only the sender from the listed rooms; the sender's
\* userId, every user-session set, every other connection's record and
\* memberships and every room that is not listed stay as they were, and a
\* listed room the sender is not in, or that does not exist, is not changed
C24_UnsubscribeFrame ==
  [][(last'.op = "message" /\ last'.message.type = "UNSUBSCRIBE"
      /\ last'.clientId \in Registered)
     => LET c == last'.clientId
            p == last'.message.payload
        IN /\ Registered' = Registered
           /\ clients'[c].subscriptions
                = clients[c].subscriptions \ Listed(p.subscriptions)
           /\ clients'[c].userId = clients[c].userId
           /\ userSessions' = userSessions
           /\ \A d \in Registered \ {c} : clients'[d] = clients[d]
           /\ \A r \in DOMAIN rooms \cup DOMAIN rooms' :
                IF r \in Listed(p.rooms) /\ SetHas(LiveSet(rooms, r), c)
                THEN LiveSet(rooms', r) = SetDelete(rooms[r], c)
                ELSE r \in DOMAIN rooms /\ r \in DOMAIN rooms'
                     /\ rooms'[r] = rooms[r]
           /\ sent' = <<>>]_vars

\* an UNSUBSCRIBE from r1 and t1 by a connection that is bound to u1, is
\* still in r2 and still has t2, and has left another member behind in r1
C24_Witness ==
  /\ LastIsMessage("UNSUBSCRIBE")
  /\ last.message.payload.rooms = <<"r1">>
  /\ last.message.payload.subscriptions = <<"t1">>
  /\ last.clientId \in Registered
  /\ clients[last.clientId].userId = "u1"
  /\ clients[last.clientId].subscriptions = {"t2"}
  /\ last.clientId \in membersOf("r2")
  /\ last.clientId \notin membersOf("r1")
  /\ membersOf("r1") # {}

\* --------------------------------------------- SUBSCRIBE then UNSUBSCRIBE
\* the lists of rooms and of topics the round trip is tried with
TripRooms == {NoList, <<>>, <<"r1">>, <<"r2", "r3">>, <<"r3", "r3">>}
TripTopics == {NoList, <<"t2", "t3">>}

Subscribe(Rs, Ts) ==
  Inbound("SUBSCRIBE", [EmptyPayload EXCEPT !.rooms = Rs, !.subscriptions = Ts])
Unsubscribe(Rs, Ts) ==
  Inbound("UNSUBSCRIBE", [EmptyPayload EXCEPT !.rooms = Rs, !.subscriptions = Ts])

\* connection c is in none of the rooms Rs and has none of the topics Ts
Fresh(c, Rs, Ts) ==
  /\ c \in Registered
  /\ \A r \in Listed(Rs) : c \notin membersOf(r)
  /\ clients[c].subscriptions \cap Listed(Ts) = {}

\* C26: in every reachable state, for a registered connection that is in
\* none of the rooms Rs and has none of the topics Ts, handling SUBSCRIBE
\* {rooms Rs, subscriptions Ts} and then UNSUBSCRIBE {rooms Rs, subscriptions
\* Ts} gives back the rooms map and the connection's subscription set as they
\* were, room entries the SUBSCRIBE created included; and handling any
\* SUBSCRIBE twice ends in the state that handling it once ends in
C26_SubscribeRoundTrip ==
  /\ \A c \in Ids, Rs \in TripRooms, Ts \in TripTopics :
       Fresh(c, Rs, Ts)
       => LET s1 == handleMessage(Server, c, Subscribe(Rs, Ts))
              s2 == handleMessage(s1, c, Unsubscribe(Rs, Ts))
          IN /\ s2.rooms = rooms
             /\ s2.clients[c].subscriptions = clients[c].subscriptions
  /\ \A c \in Registered, Rs \in TripRooms, Ts \in TripTopics,
        u \in Users \cup {None} :
       LET m == Inbound("SUBSCRIBE",
                        [EmptyPayload EXCEPT !.rooms = Rs, !.subscriptions = Ts,
                                             !.userId = u])
           s1 == handleMessage(Server, c, m)
       IN handleMessage(s1, c, m) = s1

\* a connection in r1 with topic t1, for which SUBSCRIBE {rooms [r2, r3],
\* subscriptions [t2, t3]} joins r2 behind another member and creates r3
C26_Witness ==
  \E c \in Registered :
    /\ Fresh(c, <<"r2", "r3">>, <<"t2", "t3">>)
    /\ c \in membersOf("r1") /\ clients[c].subscriptions = {"t1"}
    /\ membersOf("r2") # {} /\ "r3" \notin DOMAIN rooms
    /\ LET s1 == handleMessage(Server, c, Subscribe(<<"r2", "r3">>, <<"t2", "t3">>))
       IN /\ s1.rooms["r3"] = <<c>>
          /\ SetHas(s1.rooms["r2"], c)
          /\ s1.clients[c].subscriptions = {"t1", "t2", "t3"}

\* ------------------------------------------------------------------ origin
\* C25: every STATE_SYNC and EVENT_BROADCAST frame the server writes names,
\* as its origin, the registry identifier of the connection the inbound
\* message arrived on, and the same message under any other envelope
\* (clientId, userId) ends in the same state with the same frames written
\* to the same connections in the same order
C25_OriginIsRegistryId ==
  [][(/\ last'.op = "message"
      /\ last'.message.type \in {"STATE_SYNC", "EVENT_BROADCAST"}
      /\ last'.clientId \in Registered)
     => /\ \A i \in 1..Len(sent') :
             /\ sent'[i].msg.type \in {"STATE_SYNC", "EVENT_BROADCAST"}
                => sent'[i].msg.clientId = last'.clientId
             /\ sent'[i].msg.type = "EVENT_BROADCAST"
                => sent'[i].msg.payload.sourceClientId = last'.clientId
        /\ \A e \in Envelopes :
             LET t == onMessage(Server, last'.clientId, Envelope(last'.message, e))
             IN /\ t.sent = sent'
                /\ t.clients = clients' /\ t.rooms = rooms'
                /\ t.userSessions = userSessions'
                /\ t.readyState = readyState']_vars

\* connection 1 sends a STATE_SYNC whose envelope names connection 2 and
\* user u2, and the frame is written to connection 2
C25_Witness ==
  /\ LastIsMessage("STATE_SYNC")
  /\ last.clientId = 1 /\ last.message.clientId = 2
  /\ last.message.userId = "u2"
  /\ \E i \in 1..Len(sent) : sent[i].to = 2 /\ sent[i].msg.type = "STATE_SYNC"

\* ---------------------------------------------------------------- eviction
\* C27: a connection that a sweep removes has had no inbound message for
\* strictly more than the timeout when the sweep runs, so a connection that
\* sends an inbound message at least once per timeout period is not removed
\* by the sweep.  (A connection that leaves the registry during the sweep
\* because a USER_LEAVE written to it raised is removed by the failed write,
\* not evicted; it is recognised by its socket, whose writes throw.)
C27_SweepSparesActive ==
  [][last'.op = "sweep"
     => \A c \in Registered \ Registered' :
          \/ now - lastInbound[c] > Timeout
          \/ readyState[c] = "BROKEN"]_vars

\* --------------------------------------------------------- heartbeat timer
\* the ping frame of startHeartbeat
IsPing(f) == f.msg.type = "HEARTBEAT" /\ f.msg.payload = [ping |-> "true"]

\* C28: no HEARTBEAT ping is written to a connection that is not in the
\* registry; the tick that fires for a removed connection writes nothing and
\* clears the timer, a timer is only ever started by the accept of its
\* connection (so no second tick fires for a removed connection), and the
\* timer of a removed connection eventually stops
C28_TimerStopsAfterRemoval ==
  /\ [][\A i \in 1..Len(sent') : IsPing(sent'[i]) => sent'[i].to \in Registered]_vars
  /\ [][(last'.op = "heartbeat" /\ last'.clientId \notin Registered)
        => sent' = <<>> /\ last'.clientId \notin heartbeats']_vars
  /\ [][\A c \in heartbeats' \ heartbeats :
          last'.op = "connection" /\ last'.clientId = c]_vars
  /\ \A c \in Ids :
       (readyState[c] # "NONE" /\ c \notin Registered) ~> (c \notin heartbeats)

\* the tick of a closed connection has fired: nothing written, timer cleared
C28_Witness ==
  /\ last.op = "heartbeat"
  /\ readyState[last.clientId] = "CLOSED"
  /\ last.clientId \notin Registered
  /\ last.clientId \notin heartbeats
  /\ sent = <<>>

\* C29: every connection in the registry has a heartbeat timer that has not
\* been cleared, also after a tick that found its transport not open
C29_RegisteredHaveTimer == Registered \subseteq heartbeats

\* -------------------------------------------------------------- termination
\* the record the callback that ran last ends in, computed from the state it
\* started in
Outcome ==
  CASE last'.op = "message" -> onMessage(Server, last'.clientId, last'.message)
    [] last'.op \in {"close", "error"} ->
         handleDisconnection([Server EXCEPT !.readyState = readyState'],
                             last'.clientId)
    [] last'.op = "sweep" -> cleanupInactiveClients(Server)

\* the callback has returned with every activation of handleDisconnection
\* finished, the nesting never deeper than the number of connections that
\* were registered when it started, and one connection removed per activation
Bounded(t) ==
  /\ t.clients = clients' /\ t.rooms = rooms' /\ t.userSessions = userSessions'
  /\ t.sent = sent'
  /\ t.depth = 0
  /\ t.deepest <= Cardinality(Registered)
  /\ t.entered = Cardinality(Registered \ Registered')
  /\ Registered' \subseteq Registered

\* C30: the handling of one inbound message, one close, one error or one
\* sweep ends, whatever sockets throw on a write: every failed write
\* re-enters handleDisconnection, every re-entry removes one more connection,
\* so the nesting is bounded by the number of registered connections; and
\* in the state it ends in, every member of a room and of a user-session set
\* is registered and no room or user-session set is empty
C30_CascadeTerminates ==
  [][last'.op \in {"message", "close", "error", "sweep"}
     => /\ Bounded(Outcome)
        /\ \A r \in DOMAIN rooms' :
             rooms'[r] # <<>> /\ Elems(rooms'[r]) \subseteq Registered'
        /\ \A u \in DOMAIN userSessions' :
             userSessions'[u] # <<>> /\ Elems(userSessions'[u]) \subseteq Registered']_vars

====
